---- MODULE Spec2Model ----
(***************************************************************************)
(* A model of the flat key/value record store of go-datastore: the Store   *)
(* of src/datastore.go and src/json.go, the older DataStore of             *)
(* src/unnamed/part_000, and the two Storer codecs (JSONDataStore in       *)
(* src/json.go, YAMLDataStore in src/unnamed/part_001).                    *)
(*                                                                         *)
(* File contents are sequences of lexemes (one token per JSON/YAML lexeme  *)
(* or whitespace run), values are tagged records, paths are sequences of   *)
(* path components.                                                        *)
(***************************************************************************)
EXTENDS Integers, Sequences, FiniteSets, TLC

(***************************************************************************)
(* Bounds of the model.                                                    *)
(***************************************************************************)
\* numbers 1..MaxNum are the numeric values a caller writes
MaxNum == 1
\* the number of file descriptors a process may leak before the model stops
\* it from opening more
MaxOpenFiles == 2
\* the number of I/O faults (failing open, write, truncate, seek, copy) the
\* environment injects in one behaviour
MaxFaults == 1
\* the number of heap cells (values held by reference) of the aliasing model
MaxRefs == 3

(***************************************************************************)
(* Values: the interface{} values a caller hands to Write.                 *)
(***************************************************************************)
Keys == {"a", "b"}
\* encoding/json and yaml.v3 both emit map keys in sorted order
KeyOrder == <<"a", "b">>
Strs == {"x", "y"}
\* a nil element of a decoded sequence
NilElem == "<nil>"

Num(n) == [kind |-> "num", n |-> n, e |-> <<>>]
Arr(e) == [kind |-> "arr", n |-> 0, e |-> e]
Null == [kind |-> "null", n |-> 0, e |-> <<>>]
\* a value whose marshalling returns an error in either codec (for example
\* a type whose MarshalJSON / MarshalYAML returns an error)
Bad == [kind |-> "bad", n |-> 0, e |-> <<>>]

Representable == {Num(n) : n \in 1..MaxNum}
Values == Representable \cup {Bad}

Encodable(v) == v.kind # "bad"
AllEncodable(m) == \A k \in DOMAIN m : Encodable(m[k])

EmptyMap == [k \in {} |-> Null]
SortedKeys(m) == SelectSeq(KeyOrder, LAMBDA k : k \in DOMAIN m)

(***************************************************************************)
(* Lexemes.                                                                *)
(***************************************************************************)
Quote(s) == CASE s = "a" -> "\"a\"" [] s = "b" -> "\"b\""
              [] s = "x" -> "\"x\"" [] s = "y" -> "\"y\""
AllStrs == Keys \cup Strs
IsQuoted(t) == \E s \in AllStrs : Quote(s) = t
Unquote(t) == CHOOSE s \in AllStrs : Quote(s) = t
\* 2^53 lies beyond the integers of the model checker: the model's number BigInt
\* stands for 2^53 and BigInt + 1 for 2^53 + 1, the first integer that is no float64
BigInt == 4
NumTok(n) == CASE n = 0 -> "0" [] n = 1 -> "1" [] n = 2 -> "2" [] n = 3 -> "3"
               [] n = BigInt -> "9007199254740992" [] n = BigInt + 1 -> "9007199254740993"
Nums == 0..(BigInt + 1)
\* the float64 nearest to an integer (ties to even)
Float64(n) == IF n = BigInt + 1 THEN BigInt ELSE n
IsNumTok(t) == \E n \in Nums : NumTok(n) = t
UnNum(t) == CHOOSE n \in Nums : NumTok(n) = t
JSONSpace == {"nl", "tab", "sp"}

RECURSIVE Flatten(_)
Flatten(ss) == IF ss = <<>> THEN <<>> ELSE Head(ss) \o Flatten(Tail(ss))

RECURSIVE Repeat(_, _)
Repeat(t, n) == IF n = 0 THEN <<>> ELSE <<t>> \o Repeat(t, n - 1)

(***************************************************************************)
(* encoding/json as the repository uses it: json.Marshal (compact),        *)
(* json.MarshalIndent(v, "", "\t") and json.Unmarshal.                     *)
(***************************************************************************)
NL(pretty, d) == IF pretty THEN <<"nl">> \o Repeat("tab", d) ELSE <<>>

JSONElems(e, pretty, d) ==
    Flatten([i \in 1..Len(e) |->
        (IF i > 1 THEN <<",">> ELSE <<>>) \o NL(pretty, d)
        \o <<IF e[i] = NilElem THEN "null" ELSE Quote(e[i])>>])

JSONValue(v, pretty, d) ==
    CASE v.kind = "num" -> <<NumTok(v.n)>>
      [] v.kind = "null" -> <<"null">>
      [] v.kind = "arr" ->
            IF v.e = <<>> THEN <<"[", "]">>
            ELSE <<"[">> \o JSONElems(v.e, pretty, d + 1) \o NL(pretty, d) \o <<"]">>
      [] OTHER -> <<>>

JSONObject(m, pretty) ==
    LET ks == SortedKeys(m)
    IN  IF ks = <<>> THEN <<"{", "}">>
        ELSE <<"{">>
             \o Flatten([i \in 1..Len(ks) |->
                   (IF i > 1 THEN <<",">> ELSE <<>>) \o NL(pretty, 1)
                   \o <<Quote(ks[i]), ":">> \o (IF pretty THEN <<"sp">> ELSE <<>>)
                   \o JSONValue(m[ks[i]], pretty, 1)])
             \o NL(pretty, 0) \o <<"}">>

\* json.Marshal / json.MarshalIndent of the records map
jsonMarshalMap(m, pretty) ==
    IF AllEncodable(m) THEN [err |-> "nil", b |-> JSONObject(m, pretty)]
    ELSE [err |-> "EncodeError", b |-> <<>>]

\* json.Marshal of one record's value
jsonMarshalValue(v) ==
    IF Encodable(v) THEN [err |-> "nil", b |-> JSONValue(v, FALSE, 0)]
    ELSE [err |-> "EncodeError", b |-> <<>>]

StripSpace(b) == SelectSeq(b, LAMBDA t : t \notin JSONSpace)

PFail == [ok |-> FALSE, v |-> Null, rest |-> <<>>]

RECURSIVE PArrElem(_, _), PArrSep(_, _)
PArrElem(t, acc) ==
    IF t = <<>> THEN PFail
    ELSE IF Head(t) = "null" THEN PArrSep(Tail(t), Append(acc, NilElem))
    ELSE IF IsQuoted(Head(t)) THEN PArrSep(Tail(t), Append(acc, Unquote(Head(t))))
    ELSE PFail
PArrSep(t, acc) ==
    IF t = <<>> THEN PFail
    ELSE IF Head(t) = "]" THEN [ok |-> TRUE, v |-> Arr(acc), rest |-> Tail(t)]
    ELSE IF Head(t) = "," THEN PArrElem(Tail(t), acc)
    ELSE PFail

\* one JSON value at the head of t (the values of this model: numbers, null,
\* arrays of strings and nulls)
PValue(t) ==
    IF t = <<>> THEN PFail
    ELSE IF IsNumTok(Head(t)) THEN [ok |-> TRUE, v |-> Num(UnNum(Head(t))), rest |-> Tail(t)]
    ELSE IF Head(t) = "null" THEN [ok |-> TRUE, v |-> Null, rest |-> Tail(t)]
    ELSE IF Head(t) = "[" THEN
        IF Len(t) >= 2 /\ t[2] = "]" THEN [ok |-> TRUE, v |-> Arr(<<>>), rest |-> Tail(Tail(t))]
        ELSE PArrElem(Tail(t), <<>>)
    ELSE PFail

MapPut(m, k, v) == [x \in DOMAIN m \cup {k} |-> IF x = k THEN v ELSE m[x]]

MFail == [ok |-> FALSE, m |-> EmptyMap, rest |-> <<>>]

RECURSIVE PObjPair(_, _), PObjSep(_, _)
PObjPair(t, m) ==
    IF Len(t) < 3 \/ ~IsQuoted(t[1]) \/ t[2] # ":" THEN MFail
    ELSE LET r == PValue(SubSeq(t, 3, Len(t)))
         IN  IF ~r.ok THEN MFail
             ELSE PObjSep(r.rest, MapPut(m, Unquote(t[1]), r.v))
PObjSep(t, m) ==
    IF t = <<>> THEN MFail
    ELSE IF Head(t) = "}" THEN [ok |-> TRUE, m |-> m, rest |-> Tail(t)]
    ELSE IF Head(t) = "," THEN PObjPair(Tail(t), m)
    ELSE MFail

PObject(t) ==
    IF t = <<>> \/ Head(t) # "{" THEN MFail
    ELSE IF Len(t) >= 2 /\ t[2] = "}" THEN [ok |-> TRUE, m |-> EmptyMap, rest |-> Tail(Tail(t))]
    ELSE PObjPair(Tail(t), EmptyMap)

\* json.Unmarshal(b, &bind) with bind a map[string]interface{}: one object
\* and nothing but white space after it
jsonUnmarshalMap(b) ==
    LET r == PObject(StripSpace(b))
    IN  IF r.ok /\ r.rest = <<>> THEN [err |-> "nil", m |-> r.m]
        ELSE [err |-> "DecodeError", m |-> EmptyMap]

\* json.Unmarshal(b, out) with out a pointer to a fresh interface{}
jsonUnmarshalValue(b) ==
    LET r == PValue(StripSpace(b))
    IN  IF r.ok /\ r.rest = <<>> THEN [err |-> "nil", v |-> r.v]
        ELSE [err |-> "DecodeError", v |-> Null]


(***************************************************************************)
(* gopkg.in/yaml.v3 as the repository uses it: yaml.Marshal of the records *)
(* map (block style, keys sorted, sequences indented under their key) and  *)
(* yaml.Unmarshal into the records map.                                    *)
(***************************************************************************)
YAMLElems(e) ==
    Flatten([i \in 1..Len(e) |->
        <<"ind", "-", "sp", IF e[i] = NilElem THEN "null" ELSE e[i], "nl">>])

YAMLEntry(k, v) ==
    CASE v.kind = "num" -> <<k, ":", "sp", NumTok(v.n), "nl">>
      [] v.kind = "null" -> <<k, ":", "sp", "null", "nl">>
      [] v.kind = "arr" ->
            IF v.e = <<>> THEN <<k, ":", "sp", "[", "]", "nl">>
            ELSE <<k, ":", "nl">> \o YAMLElems(v.e)
      [] OTHER -> <<>>

YAMLObject(m) ==
    LET ks == SortedKeys(m)
    IN  IF ks = <<>> THEN <<"{", "}", "nl">>
        ELSE Flatten([i \in 1..Len(ks) |-> YAMLEntry(ks[i], m[ks[i]])])

yamlMarshalMap(m) ==
    IF AllEncodable(m) THEN [err |-> "nil", b |-> YAMLObject(m)]
    ELSE [err |-> "EncodeError", b |-> <<>>]

IFail == [ok |-> FALSE, e |-> <<>>, rest |-> <<>>]

\* the "    - x" lines of a block sequence
RECURSIVE PYItems(_, _)
PYItems(t, acc) ==
    IF t = <<>> \/ Head(t) # "ind" THEN [ok |-> TRUE, e |-> acc, rest |-> t]
    ELSE IF Len(t) = 1 THEN [ok |-> TRUE, e |-> acc, rest |-> <<>>]
    ELSE IF t[2] # "-" THEN IFail
    ELSE IF Len(t) = 2 \/ (Len(t) = 3 /\ t[3] = "sp")
         THEN [ok |-> TRUE, e |-> Append(acc, NilElem), rest |-> <<>>]
    ELSE IF t[3] # "sp" THEN IFail
    ELSE IF t[4] \notin Strs \cup {"null"} THEN IFail
    ELSE LET el == IF t[4] = "null" THEN NilElem ELSE t[4]
         IN  IF Len(t) = 4 THEN [ok |-> TRUE, e |-> Append(acc, el), rest |-> <<>>]
             ELSE IF t[5] # "nl" THEN IFail
             ELSE PYItems(SubSeq(t, 6, Len(t)), Append(acc, el))

RECURSIVE PYEntries(_, _)
PYEntries(t, m) ==
    IF t = <<>> THEN [ok |-> TRUE, m |-> m, rest |-> <<>>]
    ELSE IF Len(t) < 2 \/ t[1] \notin Keys \/ t[2] # ":" THEN MFail
    ELSE LET k == t[1]
             r == SubSeq(t, 3, Len(t))
         IN  IF r = <<>> \/ r = <<"sp">> THEN [ok |-> TRUE, m |-> MapPut(m, k, Null), rest |-> <<>>]
             ELSE IF r[1] = "sp" THEN
                 LET sc == IF IsNumTok(r[2]) THEN [ok |-> TRUE, v |-> Num(UnNum(r[2])), n |-> 2]
                           ELSE IF r[2] = "null" THEN [ok |-> TRUE, v |-> Null, n |-> 2]
                           ELSE IF r[2] = "[" /\ Len(r) >= 3 /\ r[3] = "]"
                                THEN [ok |-> TRUE, v |-> Arr(<<>>), n |-> 3]
                           ELSE [ok |-> FALSE, v |-> Null, n |-> 0]
                 IN  IF ~sc.ok THEN MFail
                     ELSE IF Len(r) = sc.n THEN [ok |-> TRUE, m |-> MapPut(m, k, sc.v), rest |-> <<>>]
                     ELSE IF r[sc.n + 1] # "nl" THEN MFail
                     ELSE PYEntries(SubSeq(r, sc.n + 2, Len(r)), MapPut(m, k, sc.v))
             ELSE IF r[1] = "nl" THEN
                 LET it == PYItems(Tail(r), <<>>)
                 IN  IF ~it.ok THEN MFail
                     ELSE PYEntries(it.rest,
                              MapPut(m, k, IF it.e = <<>> THEN Null ELSE Arr(it.e)))
             ELSE MFail

\* yaml.Unmarshal(b, &bind): no document at all (zero bytes) is no error and
\* leaves the map as it is
yamlUnmarshalMap(b) ==
    IF b = <<>> THEN [err |-> "nil", m |-> EmptyMap]
    ELSE IF b = <<"{", "}">> \/ b = <<"{", "}", "nl">> THEN [err |-> "nil", m |-> EmptyMap]
    ELSE LET r == PYEntries(b, EmptyMap)
         IN  IF r.ok THEN [err |-> "nil", m |-> r.m]
             ELSE [err |-> "DecodeError", m |-> EmptyMap]


(***************************************************************************)
(* The three copies of the store in the repository.                        *)
(***************************************************************************)
Impls == {"datastore.go", "json.go", "part_000"}

\* StoreType: the iota constants and one value that is neither
JSONStore == 0
YAMLStore == 1
StoreTypes == {JSONStore, YAMLStore, 2}

(***************************************************************************)
(* Errors.                                                                 *)
(***************************************************************************)
Err(kind) == [kind |-> kind, key |-> "", store |-> ""]
Nil == Err("nil")
IOError == Err("IOError")

\* ErrNoRecord (datastore.go, part_000) and NoRecordError{key, d.StoreName}
\* (json.go)
NoRecord(im, k, name) ==
    IF im = "json.go" THEN [kind |-> "NoRecordError", key |-> k, store |-> name]
    ELSE Err("ErrNoRecord")

\* ErrInvalidDataStore (datastore.go, part_000) and the fmt.Errorf of json.go
InvalidStore(im) ==
    IF im = "json.go" THEN Err("unsupported store type") ELSE Err("ErrInvalidDataStore")

(***************************************************************************)
(* Paths and the file system.  A path is the string the caller passes; a   *)
(* file is identified by the absolute sequence of its path components.     *)
(***************************************************************************)
Paths == {"db", "data/db", "/work/db", "db_temp"}
IsAbs(p) == p = "/work/db"
Parts(p) == CASE p = "db" -> <<"db">>
              [] p = "data/db" -> <<"data", "db">>
              [] p = "/work/db" -> <<"work", "db">>
              [] p = "db_temp" -> <<"db_temp">>
\* os.TempDir()
TempDir == <<"tmp">>
\* the directories that exist
Dirs == {<<>>, <<"tmp">>, <<"work">>, <<"work", "data">>}
\* the working directories and paths a caller runs the store with
Envs == {<<<<"tmp">>, "db">>, <<<<"work">>, "db">>, <<<<"work">>, "data/db">>,
         <<<<"tmp">>, "data/db">>}

\* the file a path names for a process whose working directory is wd
AbsPath(wd, p) == IF IsAbs(p) THEN Parts(p) ELSE wd \o Parts(p)
ParentExists(abs) == SubSeq(abs, 1, Len(abs) - 1) \in Dirs
\* name + "_temp"
TempSuffix(c) == CASE c = "db" -> "db_temp" [] c = "db_temp" -> "db_temp_temp"
                   [] OTHER -> "temp_temp"

\* the temporary file of save: filepath.Join(os.TempDir(), d.f.Name()) in
\* datastore.go and json.go, d.f.Name()+"_temp" in part_000
TempPath(im, wd, p) ==
    IF im = "part_000"
    THEN LET abs == AbsPath(wd, p)
         IN  [abs EXCEPT ![Len(abs)] = TempSuffix(abs[Len(abs)])]
    ELSE TempDir \o Parts(p)

\* os.O_TRUNC in the flags of the temporary file
TempTrunc(im) == im # "part_000"

FilePut(fs, abs, b) == [x \in DOMAIN fs \cup {abs} |-> IF x = abs THEN b ELSE fs[x]]
FileRemove(fs, abs) == [x \in DOMAIN fs \ {abs} |-> fs[x]]
NoFiles == [x \in {} |-> <<>>]

\* a write of b at offset 0 of a file that holds old
Overlay(old, b) == b \o SubSeq(old, Len(b) + 1, Len(old))
Prefix(b, n) == SubSeq(b, 1, n)

\* how much of its data a failing write or copy has written
Cuts == {"none", "half"}
CutLen(len, cut) ==
    IF len = 0 THEN 0
    ELSE CASE cut = "none" -> 0
           [] cut = "half" -> len \div 2

\* where an I/O fault strikes a flush
Faults == {"none", "open", "write", "truncate", "seek", "seektemp", "copy"}

(***************************************************************************)
(* The Storer of a store type.                                             *)
(***************************************************************************)
\* JSONDataStore.Store / YAMLDataStore.Store up to the w.Write
StorerStore(t, m) == IF t = JSONStore THEN jsonMarshalMap(m, TRUE) ELSE yamlMarshalMap(m)

\* json.Unmarshal into a map[string]interface{} stores a number as a float64
IntoInterface(d) ==
    [err |-> d.err,
     m |-> [k \in DOMAIN d.m |->
              IF d.m[k].kind = "num" THEN Num(Float64(d.m[k].n)) ELSE d.m[k]]]

\* an Open that hands the bytes to the decoder as they are, zero bytes too
StorerOpenNoNewFile(t, b) ==
    IF t = JSONStore THEN IntoInterface(jsonUnmarshalMap(b)) ELSE yamlUnmarshalMap(b)
\* JSONDataStore.Open / YAMLDataStore.Open on the bytes read from the file
StorerOpen(t, b) ==
    IF t = JSONStore
    THEN IntoInterface(jsonUnmarshalMap(IF Len(b) = 0 THEN <<"{", "}">> ELSE b))
    ELSE yamlUnmarshalMap(b)

(***************************************************************************)
(* marshalRecords, Read and ReadAll: a value reaches the caller through    *)
(* json.Marshal and json.Unmarshal.                                        *)
(***************************************************************************)
marshalRecordsValue(v) ==
    LET e == jsonMarshalValue(v)
    IN  IF e.err # "nil" THEN [err |-> Err(e.err), v |-> Null]
        ELSE LET d == jsonUnmarshalValue(e.b)
             IN  [err |-> Err(d.err), v |-> d.v]

marshalRecordsAll(m) ==
    LET e == jsonMarshalMap(m, FALSE)
    IN  IF e.err # "nil" THEN [err |-> Err(e.err), m |-> EmptyMap]
        ELSE LET d == jsonUnmarshalMap(e.b)
             IN  [err |-> Err(d.err), m |-> d.m]

ReadOf(im, name, recs, k) ==
    IF k \in DOMAIN recs THEN marshalRecordsValue(recs[k])
    ELSE [err |-> NoRecord(im, k, name), v |-> Null]

\* a Write that inserts a new key and leaves an existing record as it is
WriteRecordsNoOverwrite(recs, k, v) == IF k \in DOMAIN recs THEN recs ELSE MapPut(recs, k, v)
\* d.records[key] = bind
WriteRecords(recs, k, v) == MapPut(recs, k, v)
\* a Delete that reports success and removes nothing
DeleteRecordsKeeps(recs, k) == recs
\* delete(d.records, key)
DeleteRecords(recs, k) == [x \in DOMAIN recs \ {k} |-> recs[x]]


(***************************************************************************)
(* save: the flush of the records to the backing file, through the         *)
(* temporary file.  The result names the error, the step that failed, the  *)
(* file system afterwards and whether the handle of the temporary file is  *)
(* left open.                                                              *)
(***************************************************************************)
SaveResult(err, stage, fs, open) == [err |-> err, stage |-> stage, files |-> fs, tempOpen |-> open]

save(im, t, wd, p, fs, recs, fault, cut) ==
    LET tp == TempPath(im, wd, p)
        bp == AbsPath(wd, p)
        \* os.OpenFile(temp, O_RDWR|O_CREATE[|O_TRUNC])
        fs1 == IF TempTrunc(im) \/ tp \notin DOMAIN fs THEN FilePut(fs, tp, <<>>) ELSE fs
        enc == StorerStore(t, recs)
        \* w.Write(b), at offset 0 of the temporary file
        fs2w == FilePut(fs1, tp, Overlay(fs1[tp], Prefix(enc.b, CutLen(Len(enc.b), cut))))
        fs2 == FilePut(fs1, tp, Overlay(fs1[tp], enc.b))
        \* d.f.Truncate(0)
        fs3 == FilePut(fs2, bp, <<>>)
        \* io.Copy(d.f, f), both at offset 0
        src == fs3[tp]
        fs4c == FilePut(fs3, bp, Prefix(src, CutLen(Len(src), cut)))
        fs4 == FilePut(fs3, bp, src)
    IN  IF fault = "open" \/ ~ParentExists(tp) THEN SaveResult(IOError, "open", fs, FALSE)
        ELSE IF enc.err # "nil" THEN SaveResult(Err(enc.err), "encode", fs1, TRUE)
        ELSE IF fault = "write" THEN SaveResult(IOError, "write", fs2w, TRUE)
        ELSE IF fault = "truncate" THEN SaveResult(IOError, "truncate", fs2, TRUE)
        ELSE IF fault = "seek" THEN SaveResult(IOError, "seek", fs3, TRUE)
        ELSE IF fault = "seektemp" THEN SaveResult(IOError, "seektemp", fs3, TRUE)
        ELSE IF fault = "copy" THEN SaveResult(IOError, "copy", fs4c, TRUE)
        ELSE IF im = "part_000"
             \* f.Close() and os.Remove(d.f.Name() + "_temp")
             THEN SaveResult(Nil, "done", FileRemove(fs4, tp), FALSE)
             ELSE SaveResult(Nil, "done", fs4, TRUE)

(***************************************************************************)
(* The state.                                                              *)
(***************************************************************************)
VARIABLES
    impl,      \* which copy of the store the program is built from
    cwd,       \* the working directory of the process
    path,      \* the path the caller opens the store at
    config,    \* Config: SaveOnWrite, StoreType, StoreName
    files,     \* the file system: absolute path -> content
    st,        \* "none": no store; "open": New returned a store; "closed": Close returned nil
    records,   \* d.records
    fOpen,     \* the descriptor d.f is open
    tempFds,   \* descriptors of temporary files the process holds open
    lostFds,   \* descriptors of the backing file held open by no store
    faults,    \* the I/O faults injected so far
    last,      \* the last call and what it returned
    heap,      \* the values the store and its caller hold by reference: cell -> value
    recRef,    \* d.records as the map of references it is: key -> cell
    held       \* the cells the caller holds, and how it came by each

vars == <<impl, cwd, path, config, files, st, records, fOpen, tempFds, lostFds, faults, last,
          heap, recRef, held>>
envVars == <<impl, cwd, path>>
\* the references; the store model proper works on values and leaves them alone
refVars == <<heap, recRef, held>>

Call(op, k, v, err, stage) ==
    [op |-> op, key |-> k, val |-> v, err |-> err, stage |-> stage, prev |-> ""]
NoKey == ""

\* the records of a store file that exists before the first New
SeedRecords == [k \in {"a"} |-> Num(1)]

Init ==
    /\ impl \in Impls
    /\ \E e \in Envs : cwd = e[1] /\ path = e[2]
    /\ config \in [SaveOnWrite : BOOLEAN, StoreType : StoreTypes, StoreName : {""}]
    \* the path is fresh, or holds a store an earlier run left there
    /\ \/ files = NoFiles
       \/ /\ ParentExists(AbsPath(cwd, path))
          /\ config.StoreType \in {JSONStore, YAMLStore}
          /\ files = FilePut(NoFiles, AbsPath(cwd, path),
                             StorerStore(config.StoreType, SeedRecords).b)
    /\ st = "none"
    /\ records = EmptyMap
    /\ fOpen = FALSE
    /\ tempFds = 0
    /\ lostFds = 0
    /\ faults = 0
    /\ last = Call("start", NoKey, Null, Nil, "")
    /\ heap = <<>> /\ recRef = <<>> /\ held = <<>>

\* an I/O fault may strike while the environment has faults left; only a
\* failing write or copy leaves a part of its data behind
Inject(fault, cut) ==
    /\ fault # "none" => faults < MaxFaults
    /\ cut # "none" => fault \in {"write", "copy"}
    /\ faults' = faults + (IF fault = "none" THEN 0 ELSE 1)

BackingPath == AbsPath(cwd, path)

(***************************************************************************)
(* New: open or create the backing file, choose the Storer, read the       *)
(* records.                                                                *)
(***************************************************************************)
\* a New that hands out the store although the Storer could not read the file
NewKeepsUndecoded ==
    /\ st \in {"none", "closed"}
    /\ lostFds < MaxOpenFiles
    /\ LET bp == BackingPath
           \* os.OpenFile(path, O_RDWR|O_CREATE)
           fs1 == IF bp \in DOMAIN files THEN files ELSE FilePut(files, bp, <<>>)
           dec == StorerOpen(config.StoreType, fs1[bp])
           done(err, stage) == Call("New", NoKey, Null, err, stage)
       IN  IF ~ParentExists(bp)
           THEN /\ last' = done(IOError, "open")
                /\ UNCHANGED <<files, st, records, fOpen, lostFds, config>>
           ELSE IF config.StoreType \notin {JSONStore, YAMLStore}
           THEN /\ last' = done(InvalidStore(impl), "type")
                /\ files' = fs1
                /\ lostFds' = lostFds + 1
                /\ UNCHANGED <<st, records, fOpen, config>>
           ELSE IF dec.err # "nil"
           THEN /\ last' = done(Err(dec.err), "decode")
                /\ files' = fs1
                /\ st' = "open"
                /\ records' = dec.m
                /\ fOpen' = TRUE
                /\ UNCHANGED <<lostFds, config>>
           ELSE /\ last' = done(Nil, "done")
                /\ files' = fs1
                /\ st' = "open"
                /\ records' = dec.m
                /\ fOpen' = TRUE
                /\ config' = IF impl = "json.go" /\ config.StoreName = ""
                             THEN [config EXCEPT !.StoreName = path] ELSE config
                /\ UNCHANGED lostFds
    /\ UNCHANGED <<envVars, tempFds, faults, refVars>>

New ==
    /\ st \in {"none", "closed"}
    /\ lostFds < MaxOpenFiles
    /\ LET bp == BackingPath
           \* os.OpenFile(path, O_RDWR|O_CREATE)
           fs1 == IF bp \in DOMAIN files THEN files ELSE FilePut(files, bp, <<>>)
           dec == StorerOpen(config.StoreType, fs1[bp])
           done(err, stage) == Call("New", NoKey, Null, err, stage)
       IN  IF ~ParentExists(bp)
           THEN /\ last' = done(IOError, "open")
                /\ UNCHANGED <<files, st, records, fOpen, lostFds, config>>
           ELSE IF config.StoreType \notin {JSONStore, YAMLStore}
           THEN /\ last' = done(InvalidStore(impl), "type")
                /\ files' = fs1
                /\ lostFds' = lostFds + 1
                /\ UNCHANGED <<st, records, fOpen, config>>
           ELSE IF dec.err # "nil"
           THEN /\ last' = done(Err(dec.err), "decode")
                /\ files' = fs1
                /\ lostFds' = lostFds + 1
                /\ UNCHANGED <<st, records, fOpen, config>>
           ELSE /\ last' = done(Nil, "done")
                /\ files' = fs1
                /\ st' = "open"
                /\ records' = dec.m
                /\ fOpen' = TRUE
                /\ config' = IF impl = "json.go" /\ config.StoreName = ""
                             THEN [config EXCEPT !.StoreName = path] ELSE config
                /\ UNCHANGED lostFds
    /\ UNCHANGED <<envVars, tempFds, faults, refVars>>

(***************************************************************************)
(* Read, ReadAll, Write, Delete, Close.  Read and ReadAll hand their       *)
(* result (ReadOf, marshalRecordsAll) to the caller and assign nothing.    *)
(***************************************************************************)
Read(k) ==
    /\ st = "open"
    /\ ReadOf(impl, config.StoreName, records, k).err \in
          {Nil, Err("EncodeError"), NoRecord(impl, k, config.StoreName)}
    /\ UNCHANGED vars

ReadAll ==
    /\ st = "open"
    /\ marshalRecordsAll(records).err \in {Nil, Err("EncodeError")}
    /\ UNCHANGED vars

\* a Write that flushes whether or not SaveOnWrite is set
WriteAlwaysFlushes(k, v, fault, cut) ==
    /\ st = "open"
    /\ records' = WriteRecords(records, k, v)
    /\ tempFds < MaxOpenFiles
    /\ Inject(fault, cut)
    /\ LET r == save(impl, config.StoreType, cwd, path, files, records', fault, cut)
       IN  /\ files' = r.files
           /\ tempFds' = tempFds + (IF r.tempOpen THEN 1 ELSE 0)
           /\ last' = Call("Write", k, v, r.err, r.stage)
    /\ UNCHANGED <<envVars, config, st, fOpen, lostFds, refVars>>

\* a Write that takes the record back when its flush fails
WriteRollsBack(k, v, fault, cut) ==
    /\ st = "open"
    /\ records' = IF config.SaveOnWrite
                      /\ save(impl, config.StoreType, cwd, path, files,
                              WriteRecords(records, k, v), fault, cut).err # Nil
                   THEN records ELSE WriteRecords(records, k, v)
    /\ IF config.SaveOnWrite
       THEN /\ tempFds < MaxOpenFiles
            /\ Inject(fault, cut)
            /\ LET r == save(impl, config.StoreType, cwd, path, files,
                             WriteRecords(records, k, v), fault, cut)
               IN  /\ files' = r.files
                   /\ tempFds' = tempFds + (IF r.tempOpen THEN 1 ELSE 0)
                   /\ last' = Call("Write", k, v, r.err, r.stage)
       ELSE /\ fault = "none" /\ cut = "none"
            /\ last' = Call("Write", k, v, Nil, "")
            /\ UNCHANGED <<files, tempFds, faults>>
    /\ UNCHANGED <<envVars, config, st, fOpen, lostFds, refVars>>

Write(k, v, fault, cut) ==
    /\ st = "open"
    /\ records' = WriteRecords(records, k, v)
    /\ IF config.SaveOnWrite
       THEN /\ tempFds < MaxOpenFiles
            /\ Inject(fault, cut)
            /\ LET r == save(impl, config.StoreType, cwd, path, files, records', fault, cut)
               IN  /\ files' = r.files
                   /\ tempFds' = tempFds + (IF r.tempOpen THEN 1 ELSE 0)
                   /\ last' = Call("Write", k, v, r.err, r.stage)
       ELSE /\ fault = "none" /\ cut = "none"
            /\ last' = Call("Write", k, v, Nil, "")
            /\ UNCHANGED <<files, tempFds, faults>>
    /\ UNCHANGED <<envVars, config, st, fOpen, lostFds, refVars>>

\* a Delete that flushes, as Write does, when SaveOnWrite is set
DeleteFlushes(k) ==
    /\ st = "open"
    /\ IF k \in DOMAIN records
       THEN /\ records' = DeleteRecords(records, k)
            /\ IF config.SaveOnWrite
               THEN /\ tempFds < MaxOpenFiles
                    /\ LET r == save(impl, config.StoreType, cwd, path, files, records',
                                     "none", "none")
                       IN  /\ files' = r.files
                           /\ tempFds' = tempFds + (IF r.tempOpen THEN 1 ELSE 0)
                           /\ last' = Call("Delete", k, Null, r.err, "")
               ELSE /\ last' = Call("Delete", k, Null, Nil, "")
                    /\ UNCHANGED <<files, tempFds>>
       ELSE /\ last' = Call("Delete", k, Null, NoRecord(impl, k, config.StoreName), "")
            /\ UNCHANGED <<records, files, tempFds>>
    /\ UNCHANGED <<envVars, config, st, fOpen, lostFds, faults, refVars>>

Delete(k) ==
    /\ st = "open"
    /\ IF k \in DOMAIN records
       THEN /\ records' = DeleteRecords(records, k)
            /\ last' = Call("Delete", k, Null, Nil, "")
       ELSE /\ last' = Call("Delete", k, Null, NoRecord(impl, k, config.StoreName), "")
            /\ UNCHANGED records
    /\ UNCHANGED <<envVars, config, files, st, fOpen, tempFds, lostFds, faults, refVars>>

Close(fault, cut) ==
    /\ st = "open"
    /\ tempFds < MaxOpenFiles
    /\ Inject(fault, cut)
    /\ LET r == save(impl, config.StoreType, cwd, path, files, records, fault, cut)
       IN  /\ files' = r.files
           /\ tempFds' = tempFds + (IF r.tempOpen THEN 1 ELSE 0)
           /\ last' = Call("Close", NoKey, Null, r.err, r.stage)
           /\ IF r.err # Nil
              THEN UNCHANGED <<st, fOpen>>
              \* d.f.Close()
              ELSE st' = "closed" /\ fOpen' = FALSE
    /\ UNCHANGED <<envVars, config, records, lostFds, refVars>>

(***************************************************************************)
(* The process stops (with or without a Close) and a new one starts: its   *)
(* memory and its descriptors are gone, the files stay.  The call before   *)
(* the stop is kept in last, for what a later New must find.               *)
(***************************************************************************)
Restart ==
    /\ last.op \notin {"start", "Restart"}
    /\ st' = "none"
    /\ records' = EmptyMap
    /\ fOpen' = FALSE
    /\ tempFds' = 0
    /\ lostFds' = 0
    /\ config' = [config EXCEPT !.StoreName = ""]
    /\ last' = IF last.op = "Write" THEN [last EXCEPT !.op = "Restart", !.prev = "Write"]
                ELSE Call("Restart", NoKey, Null, Nil, "")
    /\ UNCHANGED <<envVars, files, faults, refVars>>

Next ==
    \/ New
    \/ \E k \in Keys : Read(k)
    \/ ReadAll
    \/ \E k \in Keys, v \in Values, fault \in Faults, cut \in Cuts : Write(k, v, fault, cut)
    \/ \E k \in Keys : Delete(k)
    \/ \E fault \in Faults, cut \in Cuts : Close(fault, cut)
    \/ Restart

Spec == Init /\ [][Next]_vars


(***************************************************************************)
(* The store as the map of references it is.  A value a caller hands to    *)
(* Write, or gets from Read, may be one it can change in place (a slice, a *)
(* map, a pointer): such a value lives in a cell of the heap, d.records    *)
(* maps a key to a cell, and records is what a reader of d.records finds   *)
(* there.  Write stores the caller's cell itself; Read and ReadAll put     *)
(* what json.Unmarshal builds into cells of the caller.                    *)
(***************************************************************************)
Refs == 1..MaxRefs
\* the values in the cells: slices of strings
Cells == {Arr(<<"x">>), Arr(<<"y">>)}
Range(f) == {f[x] : x \in DOMAIN f}
\* d.records[k] for every k, the cells read through
Deref(h, rr) == [k \in DOMAIN rr |-> h[rr[k]]]
\* the cells something still refers to (the rest is garbage and collected)
Live(h, rr, hd) == [r \in (DOMAIN h \cap (DOMAIN hd \cup Range(rr))) |-> h[r]]
\* a cell for a new value
Alloc(h) == CHOOSE r \in Refs \ DOMAIN h : \A q \in Refs \ DOMAIN h : r <= q
Without(f, x) == [y \in DOMAIN f \ {x} |-> f[y]]

\* the cells json.Unmarshal makes for the values of a decoded map, key by key
RECURSIVE NewCells(_, _, _)
NewCells(h, hd, vs) ==
    IF vs = <<>> THEN [heap |-> h, held |-> hd]
    ELSE LET r == Alloc(h)
         IN  NewCells(MapPut(h, r, Head(vs)), MapPut(hd, r, "read"), Tail(vs))

\* a store that New has just opened on a fresh path, flush-on-write disabled
RefInit ==
    /\ impl \in Impls
    /\ cwd = <<"work">> /\ path = "db"
    /\ \E t \in {JSONStore, YAMLStore} :
          config = [SaveOnWrite |-> FALSE, StoreType |-> t,
                    StoreName |-> IF impl = "json.go" THEN path ELSE ""]
    /\ files = FilePut(NoFiles, AbsPath(cwd, path), <<>>)
    /\ st = "open"
    /\ records = EmptyMap
    /\ fOpen = TRUE
    /\ tempFds = 0
    /\ lostFds = 0
    /\ faults = 0
    /\ last = Call("New", NoKey, Null, Nil, "done")
    /\ heap = <<>> /\ recRef = <<>> /\ held = <<>>

storeVars == <<envVars, config, files, st, fOpen, tempFds, lostFds, faults>>

\* the caller makes a value of its own
CallerMake(v) ==
    /\ DOMAIN heap # Refs
    /\ heap' = MapPut(heap, Alloc(heap), v)
    /\ held' = MapPut(held, Alloc(heap), "own")
    /\ last' = Call("Make", NoKey, Null, Nil, "")
    /\ UNCHANGED <<storeVars, records, recRef>>

\* the caller changes, in place, a value it holds
CallerMutate(r, v) ==
    /\ r \in DOMAIN held
    /\ v # heap[r]
    /\ heap' = [heap EXCEPT ![r] = v]
    /\ records' = Deref(heap', recRef)
    /\ last' = Call("Mutate", NoKey, Null, Nil, "")
    /\ UNCHANGED <<storeVars, recRef, held>>

\* the caller lets go of a value
CallerDrop(r) ==
    /\ r \in DOMAIN held
    /\ held' = Without(held, r)
    /\ heap' = Live(heap, recRef, held')
    /\ last' = Call("Drop", NoKey, Null, Nil, "")
    /\ UNCHANGED <<storeVars, records, recRef>>

\* Write(key, bind) with bind a value the caller holds: d.records[key] = bind
RefWrite(k, r) ==
    /\ st = "open" /\ ~config.SaveOnWrite
    /\ r \in DOMAIN held
    /\ recRef' = WriteRecords(recRef, k, r)
    /\ held' = [held EXCEPT ![r] = "written"]
    /\ heap' = Live(heap, recRef', held')
    /\ records' = Deref(heap', recRef')
    /\ last' = Call("Write", k, Null, Nil, "")
    /\ UNCHANGED storeVars

\* Delete(key)
RefDelete(k) ==
    /\ st = "open"
    /\ IF k \in DOMAIN recRef
       THEN /\ recRef' = DeleteRecords(recRef, k)
            /\ heap' = Live(heap, recRef', held)
            /\ records' = Deref(heap', recRef')
            /\ last' = Call("Delete", k, Null, Nil, "")
       ELSE /\ last' = Call("Delete", k, Null, NoRecord(impl, k, config.StoreName), "")
            /\ UNCHANGED <<heap, recRef, records>>
    /\ UNCHANGED <<storeVars, held>>

\* a Read that hands the caller the value d.records holds, not a copy of it
RefReadShares(k) ==
    /\ st = "open"
    /\ IF k \in DOMAIN recRef
       THEN /\ held' = MapPut(held, recRef[k], "read")
            /\ last' = Call("Read", k, heap[recRef[k]], Nil, "")
       ELSE /\ last' = Call("Read", k, Null, NoRecord(impl, k, config.StoreName), "")
            /\ UNCHANGED held
    /\ UNCHANGED <<storeVars, records, recRef, heap>>

\* Read(key, bind): marshalRecords(v, &bind) builds the caller's value from
\* the bytes json.Marshal made of d.records[key]
RefRead(k) ==
    /\ st = "open"
    /\ IF k \in DOMAIN recRef
       THEN LET res == marshalRecordsValue(heap[recRef[k]])
            IN  /\ res.err = Nil
                /\ DOMAIN heap # Refs
                /\ heap' = MapPut(heap, Alloc(heap), res.v)
                /\ held' = MapPut(held, Alloc(heap), "read")
                /\ last' = Call("Read", k, res.v, Nil, "")
       ELSE /\ last' = Call("Read", k, Null, NoRecord(impl, k, config.StoreName), "")
            /\ UNCHANGED <<heap, held>>
    /\ UNCHANGED <<storeVars, records, recRef>>

\* ReadAll(bind): marshalRecords(d.records, bind) builds the caller's map, and
\* every value in it, from the bytes json.Marshal made of d.records
RefReadAll ==
    /\ st = "open"
    /\ LET res == marshalRecordsAll(Deref(heap, recRef))
           ks == SortedKeys(res.m)
           nc == NewCells(heap, held, [i \in 1..Len(ks) |-> res.m[ks[i]]])
       IN  /\ res.err = Nil
           /\ Cardinality(DOMAIN heap) + Len(ks) <= MaxRefs
           /\ heap' = nc.heap
           /\ held' = nc.held
           /\ last' = Call("ReadAll", NoKey, Null, Nil, "")
    /\ UNCHANGED <<storeVars, records, recRef>>

RefNext ==
    \/ \E v \in Cells : CallerMake(v)
    \/ \E r \in Refs, v \in Cells : CallerMutate(r, v)
    \/ \E r \in Refs : CallerDrop(r)
    \/ \E k \in Keys, r \in Refs : RefWrite(k, r)
    \/ \E k \in Keys : RefDelete(k)
    \/ \E k \in Keys : RefRead(k)
    \/ RefReadAll

RefSpec == RefInit /\ [][RefNext]_vars


(***************************************************************************)
(* The Storers on their own: a records map is stored to a file             *)
(* (Storer.Store) and a fresh map is opened from that file (Storer.Open).  *)
(***************************************************************************)
\* the values a records map may hold that both formats can write down:
\* integers, nil, and slices of strings and nils
CodecValues ==
    {Num(0), Num(1), Num(BigInt), Num(BigInt + 1), Null,
     Arr(<<>>), Arr(<<"x">>), Arr(<<"x", "y">>), Arr(<<NilElem, "y">>)}
CodecMaps == UNION {[ks -> CodecValues] : ks \in SUBSET Keys}

CodecInit ==
    /\ impl = "json.go"
    /\ cwd = <<"work">> /\ path = "db"
    /\ \E t \in {JSONStore, YAMLStore} :
          config = [SaveOnWrite |-> FALSE, StoreType |-> t, StoreName |-> path]
    /\ files = FilePut(NoFiles, AbsPath(cwd, path), <<>>)
    /\ st = "open"
    /\ records \in CodecMaps
    /\ fOpen = TRUE
    /\ tempFds = 0
    /\ lostFds = 0
    /\ faults = 0
    /\ last = Call("start", NoKey, Null, Nil, "")
    /\ heap = <<>> /\ recRef = <<>> /\ held = <<>>

\* d.Store(d.records, f) on an empty file f
CodecStore ==
    /\ last.op \in {"start", "Open"}
    /\ LET enc == StorerStore(config.StoreType, records)
       IN  /\ files' = FilePut(files, BackingPath, enc.b)
           /\ last' = Call("Store", NoKey, Null, Err(enc.err), "")
    /\ UNCHANGED <<envVars, config, st, records, fOpen, tempFds, lostFds, faults, refVars>>

\* dS.Open(f, dS.records) with dS.records the empty map New has made
CodecOpen ==
    /\ last.op = "Store" /\ last.err = Nil
    /\ LET dec == StorerOpen(config.StoreType, files[BackingPath])
       IN  /\ records' = dec.m
           /\ last' = Call("Open", NoKey, Null, Err(dec.err), "")
    /\ UNCHANGED <<envVars, config, files, st, fOpen, tempFds, lostFds, faults, refVars>>

CodecNext == CodecStore \/ CodecOpen

CodecSpec == CodecInit /\ [][CodecNext]_vars


(***************************************************************************)
(* Properties.  A step that is no stuttering step is a step of the call    *)
(* that last' names.                                                       *)
(***************************************************************************)
Name == config.StoreName
ReadNow(k) == ReadOf(impl, config.StoreName, records, k)
OthersKept(k) ==
    \A x \in Keys \ {k} :
        /\ (x \in DOMAIN records') = (x \in DOMAIN records)
        /\ x \in DOMAIN records => records'[x] = records[x]

C2_DeleteThenRead ==
    [][ last'.op = "Delete" =>
          LET k == last'.key
          IN  IF k \in DOMAIN records
              THEN /\ last'.err = Nil
                   /\ ReadOf(impl, Name, records', k).err = NoRecord(impl, k, Name)
              ELSE /\ last'.err = NoRecord(impl, k, Name)
                   /\ last'.err # Nil
                   /\ records' = records ]_vars

\* a Delete of an absent key on a store that holds another record
C2_Witness ==
    /\ last.op = "Delete" /\ last.err = NoRecord(impl, last.key, Name)
    /\ records # EmptyMap
    /\ ReadNow(last.key).err = NoRecord(impl, last.key, Name)


\* the records a new store would read from the backing file
OnDisk == StorerOpen(config.StoreType, files[BackingPath])
\* the temporary file of the flush is the backing file itself
Aliased == TempPath(impl, cwd, path) = BackingPath

\* C3: on a store opened with flush-on-write disabled, after a Close that
\* returned nil, the next New on the same path succeeds and its ReadAll yields
\* the records the closed store held.
C3_CloseThenReopen ==
    [][ (~config.SaveOnWrite /\ st = "closed" /\ last.op = "Close" /\ last'.op = "New")
          => /\ last'.err = Nil
             /\ marshalRecordsAll(records') = [err |-> Nil, m |-> records] ]_vars

\* C4: with flush-on-write enabled, after a Write(k, v) that returned nil, a
\* stop of the process without Close and a New on the same path, Read(k) on
\* the new store yields v.
C4_Durability ==
    [][ (config.SaveOnWrite /\ last.op = "Restart" /\ last.prev = "Write"
            /\ last.err = Nil /\ last'.op = "New")
          => /\ last'.err = Nil
             /\ ReadOf(impl, config'.StoreName, records', last.key)
                  = [err |-> Nil, v |-> last.val] ]_vars

\* C5: a flush that fails before the backing file is truncated (the records
\* cannot be encoded, the temporary file cannot be created or written)
\* reports the error and leaves the content of the backing file as it was.
C5_FailedFlushKeepsFile ==
    [][ (last'.op \in {"Write", "Close"} /\ last'.stage \in {"open", "encode", "write"})
          => /\ last'.err # Nil
             /\ files'[BackingPath] = files[BackingPath] ]_vars


\* C3 and C4 hold of the Store of datastore.go and json.go when the temporary
\* file is a file of its own
C3_HoldsUnaliased ==
    [][ (~Aliased /\ impl # "part_000" /\ ~config.SaveOnWrite /\ st = "closed"
            /\ last.op = "Close" /\ last'.op = "New")
          => /\ last'.err = Nil
             /\ marshalRecordsAll(records') = [err |-> Nil, m |-> records] ]_vars
C4_HoldsUnaliased ==
    [][ (~Aliased /\ impl # "part_000" /\ config.SaveOnWrite /\ last.op = "Restart"
            /\ last.prev = "Write" /\ last.err = Nil /\ last'.op = "New")
          => /\ last'.err = Nil
             /\ ReadOf(impl, config'.StoreName, records', last.key)
                  = [err |-> Nil, v |-> last.val] ]_vars
\* C5 holds of every copy when the temporary file is a file of its own
C5_HoldsUnaliased ==
    [][ (~Aliased /\ last'.op \in {"Write", "Close"}
            /\ last'.stage \in {"open", "encode", "write"})
          => /\ last'.err # Nil
             /\ files'[BackingPath] = files[BackingPath] ]_vars

\* C6: with flush-on-write enabled, a Write whose flush fails returns the
\* error of the flush (the encode error, or the I/O error), and the records
\* hold k mapped to v all the same, every other record as it was.
C6_FailedFlushKeepsWrite ==
    [][ (last'.op = "Write" /\ config.SaveOnWrite /\ last'.stage # "done")
          => /\ last'.err = (IF last'.stage = "encode" THEN Err("EncodeError") ELSE IOError)
             /\ last'.key \in DOMAIN records'
             /\ records'[last'.key] = last'.val
             /\ OthersKept(last'.key) ]_vars

\* a Write of a value that cannot be encoded, next to a record that can
C6_Witness ==
    /\ last.op = "Write" /\ config.SaveOnWrite
    /\ last.err = Err("EncodeError") /\ last.val = Bad
    /\ records[last.key] = Bad
    /\ \E x \in DOMAIN records : records[x] \in Representable

\* C7: after Close returns, with nil or with the error of its flush, the
\* store holds no open handle on the backing file.
C7_CloseReleasesHandle == last.op = "Close" => ~fOpen

\* C8: the records of an open store are a superset of the records last
\* persisted to the backing file, and equal to them right after a flush that
\* succeeded.  (While no I/O fault has struck, the backing file holds what the
\* last successful flush, or nobody yet, wrote.)
C8_SupersetOfPersisted ==
    /\ (st = "open" /\ faults = 0)
         => /\ OnDisk.err = "nil"
            /\ \A k \in DOMAIN OnDisk.m : k \in DOMAIN records /\ records[k] = OnDisk.m[k]
    /\ (last.op \in {"Write", "Close"} /\ last.stage = "done")
         => OnDisk = [err |-> "nil", m |-> records]

\* C9: Delete, successful or not, with flush-on-write or without, leaves the
\* backing file, the temporary files and their handles as they were.
C9_DeleteDoesNotFlush ==
    [][ last'.op = "Delete" => (files' = files /\ tempFds' = tempFds) ]_vars

\* a successful Delete under flush-on-write: the backing file still holds the record
C9_Witness ==
    /\ last.op = "Delete" /\ last.err = Nil /\ config.SaveOnWrite
    /\ OnDisk.err = "nil" /\ last.key \in DOMAIN OnDisk.m
    /\ last.key \notin DOMAIN records

\* C10: New on a path whose file holds content the Storer cannot read fails
\* with the decode error, returns no store, creates no file and leaves the
\* content of every file as it was.
C10_MalformedFailsNew ==
    [][ (/\ last'.op = "New"
         /\ config.StoreType \in {JSONStore, YAMLStore}
         /\ BackingPath \in DOMAIN files
         /\ OnDisk.err # "nil")
          => /\ last'.err = Err("DecodeError")
             /\ st' # "open"
             /\ records' = records
             /\ files' = files ]_vars

\* a New that failed on a backing file left half written
C10_Witness ==
    /\ last.op = "New" /\ last.err = Err("DecodeError")
    /\ st = "none" /\ files[BackingPath] # <<>>

\* C11: for the JSON and the YAML Storer, New on a path whose file does not
\* exist yet (in a directory that does) or has zero length returns nil and a
\* store whose ReadAll yields the empty mapping; Open of zero bytes is no error.
C11_EmptyFileOpens ==
    [][ (/\ last'.op = "New"
         /\ config.StoreType \in {JSONStore, YAMLStore}
         /\ ParentExists(BackingPath)
         /\ (BackingPath \notin DOMAIN files \/ files[BackingPath] = <<>>))
          => /\ StorerOpen(config.StoreType, <<>>) = [err |-> "nil", m |-> EmptyMap]
             /\ last'.err = Nil
             /\ st' = "open"
             /\ files'[BackingPath] = <<>>
             /\ marshalRecordsAll(records') = [err |-> Nil, m |-> EmptyMap] ]_vars

\* a JSON store that New has just opened on a file of zero length
C11_Witness ==
    /\ last.op = "New" /\ last.err = Nil /\ st = "open"
    /\ config.StoreType = JSONStore
    /\ files[BackingPath] = <<>>
    /\ records = EmptyMap

\* C12: Read and ReadAll leave the records, every value the records refer to
\* and every file as they were; and when the caller changes, in place, a value
\* that Read or ReadAll handed back, the records (what a later Read, ReadAll
\* or flush finds) stay as they were.
C12_ReadsAreSnapshots ==
    [][ /\ last'.op \in {"Read", "ReadAll"}
            => /\ records' = records /\ recRef' = recRef /\ files' = files
               /\ \A r \in DOMAIN heap : r \in DOMAIN heap' /\ heap'[r] = heap[r]
               /\ (last'.op = "Read" /\ last'.err = Nil) => last'.val = records[last'.key]
        /\ (last'.op = "Mutate" /\ \A r \in DOMAIN heap : heap'[r] # heap[r] => held[r] = "read")
            => /\ records' = records
               /\ \A k \in Keys : ReadOf(impl, Name, records', k) = ReadOf(impl, Name, records, k)
               /\ marshalRecordsAll(records') = marshalRecordsAll(records)
               /\ StorerStore(config.StoreType, records') = StorerStore(config.StoreType, records) ]_vars

\* the caller has changed the one value it holds, which Read or ReadAll
\* handed back, and the record it was read from is as it was
C12_Witness ==
    /\ last.op = "Mutate"
    /\ DOMAIN recRef = {"a"}
    /\ \E r \in Refs : DOMAIN held = {r} /\ held[r] = "read" /\ heap[r] # records["a"]

\* C13: for the JSON and the YAML Storer and every records map M of values
\* the format can write down, Open of what Store wrote for M succeeds and
\* yields a map with the keys of M and, under each key, the value of M.
C13_RoundTrip ==
    [][ last'.op = "Open" => (last'.err = Nil /\ records' = records) ]_vars

\* C13 holds of the YAML Storer, and of the JSON Storer for maps without an
\* integer that is no float64
C13_HoldsOfYAML ==
    [][ (last'.op = "Open" /\ config.StoreType = YAMLStore)
          => (last'.err = Nil /\ records' = records) ]_vars
C13_HoldsOfJSONFloats ==
    [][ (last'.op = "Open" /\ \A k \in DOMAIN records : records[k] # Num(BigInt + 1))
          => (last'.err = Nil /\ records' = records) ]_vars

\* C14: after a flush that returned nil (in Write or in Close), the handle of
\* the temporary file is closed and the temporary file is gone: the process
\* holds no more temp-file handles than before the flush, and no file is left
\* at the temporary path.
C14_TempReleased ==
    [][ (last'.op \in {"Write", "Close"} /\ last'.stage = "done")
          => /\ tempFds' = tempFds
             /\ TempPath(impl, cwd, path) \notin DOMAIN files' ]_vars

\* C14 holds of the DataStore of part_000, which closes and removes the file
C14_HoldsOfPart000 ==
    [][ (impl = "part_000" /\ last'.op \in {"Write", "Close"} /\ last'.stage = "done")
          => /\ tempFds' = tempFds
             /\ TempPath(impl, cwd, path) \notin DOMAIN files' ]_vars

\* the stores a process may have open next to this one: a working directory
\* and a path whose file can be created
OtherStores == {e \in {<<"tmp">>, <<"work">>} \X Paths : ParentExists(AbsPath(e[1], e[2]))}

\* C15: the temporary file of a store's flush is not the store's own backing
\* file, and for every other store with another backing file, it is neither
\* that store's backing file nor that store's temporary file.
C15_TempNeverCollides ==
    st = "open" =>
        /\ TempPath(impl, cwd, path) # BackingPath
        /\ \A e \in OtherStores :
              AbsPath(e[1], e[2]) # BackingPath
                => /\ TempPath(impl, cwd, path) # AbsPath(e[1], e[2])
                   /\ TempPath(impl, cwd, path) # TempPath(impl, e[1], e[2])

\* the first half of C15 holds of the DataStore of part_000, whose temporary
\* file is named after the backing file
C15_OwnTempOfPart000 ==
    (st = "open" /\ impl = "part_000") => TempPath(impl, cwd, path) # BackingPath

\* C16: with flush-on-write disabled, a Write changes the records only: every
\* file and every handle is as before, and the backing file changes only in
\* Close; with flush-on-write enabled, every Write runs save once before it
\* returns (it reports save's outcome, and opens the temporary file once).
C16_FlushPolicy ==
    [][ /\ (last'.op = "Write" /\ ~config.SaveOnWrite)
            => /\ files' = files /\ tempFds' = tempFds /\ faults' = faults
               /\ last'.err = Nil /\ last'.stage = ""
        /\ (~config.SaveOnWrite /\ BackingPath \in DOMAIN files
               /\ files'[BackingPath] # files[BackingPath])
            => last'.op = "Close"
        /\ (last'.op = "Write" /\ config.SaveOnWrite)
            => LET r == save(impl, config.StoreType, cwd, path, files, records',
                             IF faults' = faults THEN "none" ELSE last'.stage, "none")
               IN  /\ last'.stage # ""
                   /\ last'.err = r.err /\ last'.stage = r.stage
                   /\ tempFds' = tempFds + (IF r.tempOpen THEN 1 ELSE 0)
                   /\ DOMAIN files' = DOMAIN r.files
                   /\ last'.stage = "done" => files' = r.files ]_vars

\* two Writes in a row without flush-on-write, on a store whose file holds
\* neither of them
C16_Witness ==
    /\ last.op = "Write" /\ ~config.SaveOnWrite
    /\ DOMAIN records = Keys
    /\ OnDisk = [err |-> "nil", m |-> EmptyMap]

\* C17: after a flush that returned nil (in Write or in Close), the backing
\* file holds the encoding of the records and nothing else, whatever an
\* earlier flush, successful or failed, left in the backing file or in the
\* temporary file.
C17_ExactEncoding ==
    [][ (last'.op \in {"Write", "Close"} /\ last'.stage = "done")
          => files'[BackingPath] = StorerStore(config.StoreType, records').b ]_vars

\* C17 holds of the Store of datastore.go and json.go when the temporary
\* file is a file of its own: O_TRUNC empties what an earlier flush left
C17_HoldsUnaliased ==
    [][ (~Aliased /\ impl # "part_000"
            /\ last'.op \in {"Write", "Close"} /\ last'.stage = "done")
          => files'[BackingPath] = StorerStore(config.StoreType, records').b ]_vars

\* C18: when New succeeded on the path, no I/O fault strikes and every record
\* can be encoded, every flush (of a Write with flush-on-write, of Close)
\* returns nil, whether the path is a bare file name or has directories in it.
C18_FlushSucceedsWherePathOpens ==
    [][ (/\ last'.op \in {"Write", "Close"} /\ last'.stage # ""
         /\ faults' = faults
         /\ AllEncodable(records'))
          => last'.err = Nil ]_vars

\* C18 holds of the DataStore of part_000, whose temporary file lies next to
\* the backing file, and of every copy for a bare file name
C18_HoldsOfPart000 ==
    [][ (/\ impl = "part_000" \/ Len(Parts(path)) = 1
         /\ last'.op \in {"Write", "Close"} /\ last'.stage # ""
         /\ faults' = faults
         /\ AllEncodable(records'))
          => last'.err = Nil ]_vars

\* C19: New with a store type that has no Storer fails with the error for an
\* unsupported type, returns no store, and leaves every file and every handle
\* as it was: it creates no backing file and keeps no handle on it open.
C19_UnsupportedTypeLeavesNothing ==
    [][ (/\ last'.op = "New"
         /\ config.StoreType \notin {JSONStore, YAMLStore}
         /\ ParentExists(BackingPath))
          => /\ last'.err = InvalidStore(impl)
             /\ st' # "open" /\ ~fOpen'
             /\ files' = files
             /\ lostFds' = lostFds ]_vars

\* of C19, the error and the absence of a store hold
C19_ErrorAndNoStore ==
    [][ (/\ last'.op = "New"
         /\ config.StoreType \notin {JSONStore, YAMLStore}
         /\ ParentExists(BackingPath))
          => /\ last'.err = InvalidStore(impl)
             /\ st' # "open" /\ ~fOpen' ]_vars


====
